---------------------------- MODULE Spec2Model ----------------------------
(***************************************************************************)
(* Model of the calibration-analyzer browser front end:                    *)
(*   - the configure page (getConfigurations, processFiles, saveConfig,    *)
(*     loadConfigFromFile, applyConfig, normalizeRangeSetting), and        *)
(*   - the upload page (handleFiles, clearFiles, proceedToConfigure).      *)
(*                                                                         *)
(* Representation.                                                         *)
(*   A JavaScript string is a sequence of one-character strings.           *)
(*   A JavaScript value is a record [t, v]: t is the type tag and v the    *)
(*   payload (a character sequence for a string, <<n>> for a number).      *)
(*   A Number is held in fixed point, as an integer count of 1e-5; NaN is  *)
(*   a value of its own.  The numerals used are chosen so that the         *)
(*   fixed-point difference and the IEEE-754 difference compare the same   *)
(*   way against 0.0001.                                                   *)
(***************************************************************************)
EXTENDS Integers, Sequences, FiniteSets, TLC

VARIABLES
    value,          \* normalizeRangeSetting: the argument
    normalized,     \* normalizeRangeSetting: the result, or Pending
    rows,           \* #config-table tbody tr: dataset + the three inputs
    configData,     \* the document handed to applyConfig (data.config)
    loadedCount,    \* applyConfig: the count written to the console
    merged,         \* whether applyConfig has run
    page,           \* the page shown: "upload", "configure", "results"
    overlay,        \* #loading-overlay is displayed
    inflight,       \* per endpoint, the fetches whose promise is unsettled
    event,          \* the handler that ran last and how it ended
    alerted,        \* the alert() that handler raised, or "none"
    notified,       \* the notification that handler showed, or "none"
    fileListShown,  \* #file-list-section is displayed
    proceedEnabled  \* #proceed-btn is enabled

pureVars == <<value, normalized, rows, configData, loadedCount, merged>>

uiVars == <<page, overlay, inflight, event, alerted, notified, fileListShown,
            proceedEnabled>>

vars == <<value, normalized, rows, configData, loadedCount, merged, page,
          overlay, inflight, event, alerted, notified, fileListShown,
          proceedEnabled>>

---------------------------------------------------------------------------
(* Bounds of the model *)

\* longest string given to normalizeRangeSetting
MaxLen == 4
\* number of rows of the configuration table
NumRows == 2
\* longest configurations array of a loaded document
MaxConfigs == 2
\* most unsettled fetches of one endpoint
MaxInFlight == 1

---------------------------------------------------------------------------
(* JavaScript values *)

Undefined == [t |-> "undefined", v |-> <<>>]
Null == [t |-> "null", v |-> <<>>]
NaN == [t |-> "nan", v |-> <<>>]
Str(s) == [t |-> "string", v |-> s]
Num(n) == [t |-> "number", v |-> <<n>>]

\* not yet computed
Pending == [t |-> "pending", v |-> <<>>]

\* Number: the count of 1e-5 in one unit
Scale == 100000
\* 0.0001, in units of 1e-5
Tolerance == 10

IsWhite(c) == c = " "

Digits == <<"0", "1", "2", "3", "4", "5", "6", "7", "8", "9">>

IsDigit(c) == \E d \in 1..10 : Digits[d] = c

DigitVal(c) == (CHOOSE d \in 1..10 : Digits[d] = c) - 1

\* String.prototype.trim: drop the white space at both ends
RECURSIVE TrimLeft(_)
TrimLeft(s) ==
    IF s # <<>> /\ IsWhite(Head(s)) THEN TrimLeft(Tail(s)) ELSE s

RECURSIVE TrimRight(_)
TrimRight(s) ==
    IF s # <<>> /\ IsWhite(s[Len(s)])
    THEN TrimRight(SubSeq(s, 1, Len(s) - 1))
    ELSE s

Trim(s) == TrimRight(TrimLeft(s))

\* the decimal digits of a natural number
RECURSIVE NatToString(_)
NatToString(n) ==
    IF n < 10 THEN <<Digits[n + 1]>>
    ELSE NatToString(n \div 10) \o <<Digits[(n % 10) + 1]>>

\* the fraction digits of f (0 <= f < 10^width), trailing zeros dropped
RECURSIVE FracToString(_, _)
FracToString(f, width) ==
    IF f = 0 THEN <<>>
    ELSE <<Digits[(f \div width) + 1]>> \o FracToString((f % width) * 10, width)

\* Number.prototype.toString, radix 10
NumToString(n) ==
    LET a == IF n < 0 THEN -n ELSE n
        ip == NatToString(a \div Scale)
        fp == FracToString(a % Scale, Scale \div 10)
    IN  (IF n < 0 THEN <<"-">> ELSE <<>>)
        \o ip
        \o (IF fp = <<>> THEN <<>> ELSE <<".">> \o fp)

\* String(value)
StringOf(x) ==
    CASE x.t = "string" -> x.v
      [] x.t = "number" -> NumToString(x.v[1])
      [] x.t = "nan" -> <<"N", "a", "N">>
      [] x.t = "null" -> <<"n", "u", "l", "l">>
      [] x.t = "undefined" ->
            <<"u", "n", "d", "e", "f", "i", "n", "e", "d">>

\* the longest prefix of s made of digits
RECURSIVE DigitPrefix(_)
DigitPrefix(s) ==
    IF s # <<>> /\ IsDigit(Head(s))
    THEN <<Head(s)>> \o DigitPrefix(Tail(s))
    ELSE <<>>

\* the value of a digit sequence, most significant first
RECURSIVE DigitsVal(_)
DigitsVal(ds) ==
    IF ds = <<>> THEN 0
    ELSE DigitsVal(SubSeq(ds, 1, Len(ds) - 1)) * 10 + DigitVal(ds[Len(ds)])

\* the first k fraction digits as a count of 1e-5 (k <= 5 digits are kept)
RECURSIVE FracVal(_, _)
FracVal(ds, unit) ==
    IF ds = <<>> \/ unit = 0 THEN 0
    ELSE DigitVal(Head(ds)) * unit + FracVal(Tail(ds), unit \div 10)

\* parseFloat of a string: white space, a sign, digits, a point, digits; the
\* longest such prefix is the number, and no digit at all is NaN
ParseFloatStr(s) ==
    LET t == TrimLeft(s)
        neg == t # <<>> /\ Head(t) = "-"
        signed == t # <<>> /\ Head(t) \in {"-", "+"}
        u == IF signed THEN Tail(t) ELSE t
        ip == DigitPrefix(u)
        r == SubSeq(u, Len(ip) + 1, Len(u))
        fp == IF r # <<>> /\ Head(r) = "." THEN DigitPrefix(Tail(r)) ELSE <<>>
        mag == DigitsVal(ip) * Scale + FracVal(fp, Scale \div 10)
    IN  IF ip = <<>> /\ fp = <<>> THEN NaN
        ELSE Num(IF neg THEN -mag ELSE mag)

\* parseFloat(x): x is first coerced to a string
ParseFloat(x) ==
    IF x.t = "number" THEN x ELSE ParseFloatStr(StringOf(x))

IsNaN(x) == x.t = "nan"

---------------------------------------------------------------------------
(* normalizeRangeSetting *)

NA == <<"N", "/", "A">>

\* mutant: the string "null" is not taken for the sentinel
normalizeRangeSettingNoNull(x) ==
    IF x = Null \/ x = Undefined \/ x = Str(<<"N", "o", "n", "e">>)
    THEN NA
    ELSE Trim(StringOf(x))

normalizeRangeSetting(x) ==
    IF x = Null \/ x = Undefined
       \/ x = Str(<<"N", "o", "n", "e">>) \/ x = Str(<<"n", "u", "l", "l">>)
    THEN NA
    ELSE Trim(StringOf(x))

---------------------------------------------------------------------------
(* The configuration table and the documents *)

\* filesInfo.unit, set by the page for the whole session
filesInfoUnit == Str(<<"V">>)

Obj(r) == [t |-> "object", v |-> r]
Arr(s) == [t |-> "array", v |-> s]

\* JavaScript truthiness of the values a document field may hold
Truthy(x) ==
    CASE x.t \in {"undefined", "null", "nan"} -> FALSE
      [] x.t = "string" -> x.v # <<>>
      [] x.t = "number" -> x.v[1] # 0
      [] OTHER -> TRUE

\* what assigning x to an <input>'s value leaves in it: null gives the
\* empty string, anything else its string form
InputValue(x) == IF x = Null THEN <<>> ELSE StringOf(x)

\* a value after JSON.stringify and the parse of that text: NaN is written
\* as null; a key holding undefined is left out and reads back undefined
JsonValue(x) == IF x.t = "nan" THEN Null ELSE x

---------------------------------------------------------------------------
(* getConfigurations *)

\* `a || b` on strings
OrElse(s, d) == IF s = <<>> THEN d ELSE s

\* mutant: a blank range input is saved blank
RowConfigNoDefault(row) ==
    [test_value |-> ParseFloat(Str(row.testValue)),
     range_setting |-> Str(row.rangeSetting),
     io_type |-> Str(row.ioType),
     range_input |-> Str(Trim(row.rangeInput)),
     reference |-> ParseFloat(Str(row.reference)),
     tolerance |-> ParseFloat(Str(row.tolerance))]

\* the record pushed for one row (lines 47-54)
RowConfig(row) ==
    [test_value |-> ParseFloat(Str(row.testValue)),
     range_setting |-> Str(row.rangeSetting),
     io_type |-> Str(row.ioType),
     range_input |-> Str(OrElse(Trim(row.rangeInput), NA)),
     reference |-> ParseFloat(Str(row.reference)),
     tolerance |-> ParseFloat(Str(row.tolerance))]

\* mutant: the sign of the tolerance is not checked
RowCheckNoSign(row) ==
    LET reference == ParseFloat(Str(row.reference))
        tolerance == ParseFloat(Str(row.tolerance))
    IN  IF IsNaN(reference) \/ IsNaN(tolerance) THEN "Invalid values"
        ELSE "ok"

\* the check of one row (lines 39-45): "ok", or the error thrown
RowCheck(row) ==
    LET reference == ParseFloat(Str(row.reference))
        tolerance == ParseFloat(Str(row.tolerance))
    IN  IF IsNaN(reference) \/ IsNaN(tolerance) THEN "Invalid values"
        ELSE IF tolerance.v[1] < 0 THEN "Tolerance must be positive"
        ELSE "ok"

\* rows.forEach from row i on: the list when every row passes, and the
\* throw of the first row that does not (then nothing is returned)
RECURSIVE getConfigurationsFrom(_, _, _)
getConfigurationsFrom(rs, i, configs) ==
    IF i > Len(rs) THEN [threw |-> FALSE, at |-> 0, configs |-> configs]
    ELSE IF RowCheck(rs[i]) # "ok"
         THEN [threw |-> TRUE, at |-> i, configs |-> <<>>]
         ELSE getConfigurationsFrom(rs, i + 1, Append(configs, RowConfig(rs[i])))

getConfigurations(rs) == getConfigurationsFrom(rs, 1, <<>>)

---------------------------------------------------------------------------
(* saveConfig: the document built from the extracted records *)

\* one entry of configData.configurations (lines 112-119)
SavedRecord(c) ==
    [test_value |-> c.test_value,
     range_setting |-> IF c.range_setting = Str(NA) THEN Null ELSE c.range_setting,
     io_type |-> c.io_type,
     range_input |-> c.range_input,
     reference |-> Str(NumToString(c.reference.v[1])),
     tolerance |-> Str(NumToString(c.tolerance.v[1]))]

\* configData (lines 110-120)
SavedDocument(configs) ==
    Obj([unit |-> filesInfoUnit,
         configurations |->
            Arr([k \in 1..Len(configs) |-> Obj(SavedRecord(configs[k]))])])

\* the saved document as it comes back from JSON text
JsonRecord(r) == [f \in DOMAIN r |-> JsonValue(r[f])]

JsonDocument(doc) ==
    Obj([unit |-> JsonValue(doc.v.unit),
         configurations |->
            Arr([k \in 1..Len(doc.v.configurations.v) |->
                    Obj(JsonRecord(doc.v.configurations.v[k].v))])])

---------------------------------------------------------------------------
(* applyConfig *)

Abs(n) == IF n < 0 THEN -n ELSE n

\* mutant: the bound of 0.0001 is met, not only undercut
TestValueMatchInclusive(rowTestValue, configTestValue) ==
    /\ ~IsNaN(rowTestValue)
    /\ ~IsNaN(configTestValue)
    /\ Abs(rowTestValue.v[1] - configTestValue.v[1]) <= Tolerance

\* Math.abs(rowTestValue - configTestValue) < 0.0001 (line 209); a NaN on
\* either side compares false
TestValueMatch(rowTestValue, configTestValue) ==
    /\ ~IsNaN(rowTestValue)
    /\ ~IsNaN(configTestValue)
    /\ Abs(rowTestValue.v[1] - configTestValue.v[1]) < Tolerance

\* lines 198-213: whether the row is written from the record
Matches(config, row) ==
    LET configTestValue == ParseFloat(config.test_value)
        configRangeSetting == normalizeRangeSetting(config.range_setting)
        configIoType == config.io_type
        rowTestValue == ParseFloat(Str(row.testValue))
        rowRangeSetting == normalizeRangeSetting(Str(row.rangeSetting))
        rowIoType == Str(row.ioType)
    IN  /\ TestValueMatch(rowTestValue, configTestValue)
        /\ rowRangeSetting = configRangeSetting
        /\ rowIoType = configIoType

\* mutant: the reference is written whether or not the record supplies it
WriteRowAlways(config, row) ==
    [row EXCEPT
        !.rangeInput = IF config.range_input # Undefined
                       THEN InputValue(config.range_input) ELSE @,
        !.reference = InputValue(config.reference),
        !.tolerance = IF config.tolerance # Undefined
                      THEN InputValue(config.tolerance) ELSE @]

\* lines 218-226: the inputs of a matching row after the record is applied
WriteRow(config, row) ==
    [row EXCEPT
        !.rangeInput = IF config.range_input # Undefined
                       THEN InputValue(config.range_input) ELSE @,
        !.reference = IF config.reference # Undefined
                      THEN InputValue(config.reference) ELSE @,
        !.tolerance = IF config.tolerance # Undefined
                      THEN InputValue(config.tolerance) ELSE @]

\* mutant: every row is written, matching or not
ApplyRecordUnguarded(config, rs) ==
    [j \in 1..Len(rs) |-> WriteRow(config, rs[j])]

\* the inner rows.forEach (lines 203-229) for one record
ApplyRecord(config, rs) ==
    [j \in 1..Len(rs) |->
        IF Matches(config, rs[j]) THEN WriteRow(config, rs[j]) ELSE rs[j]]

\* mutant: a record is counted once, however many rows it matches
MatchCountOnce(config, rs) ==
    IF \E j \in 1..Len(rs) : Matches(config, rs[j]) THEN 1 ELSE 0

MatchCount(config, rs) ==
    Cardinality({j \in 1..Len(rs) : Matches(config, rs[j])})

\* configurations.forEach from entry i on (lines 196-230).  Reading a
\* property of an entry that is null or undefined throws: the rows written
\* so far stay written and line 232 is not reached.
RECURSIVE ForEachConfig(_, _, _, _)
ForEachConfig(configurations, i, rs, count) ==
    IF i > Len(configurations)
    THEN [rows |-> rs, loadedCount |-> count, threw |-> FALSE, ran |-> TRUE]
    ELSE IF configurations[i].t # "object"
         THEN [rows |-> rs, loadedCount |-> count, threw |-> TRUE, ran |-> TRUE]
         ELSE ForEachConfig(configurations, i + 1,
                            ApplyRecord(configurations[i].v, rs),
                            count + MatchCount(configurations[i].v, rs))

\* whether applyConfig asks the user (line 185)
UnitDiffers(doc) ==
    doc.t = "object" /\ Truthy(doc.v.unit) /\ doc.v.unit # filesInfoUnit

\* mutant: the merge runs before the user is asked
applyConfigMergeFirst(doc, rs, answer) ==
    IF doc.t # "object"
    THEN [rows |-> rs, loadedCount |-> 0, threw |-> TRUE, ran |-> FALSE]
    ELSE LET r == ForEachConfig(
                    IF Truthy(doc.v.configurations) THEN doc.v.configurations.v
                    ELSE <<>>, 1, rs, 0)
         IN  IF UnitDiffers(doc) /\ ~answer
             THEN [rows |-> r.rows, loadedCount |-> 0, threw |-> FALSE, ran |-> FALSE]
             ELSE r

\* applyConfig(configData) with the user's answer to confirm(), should it
\* be asked: the rows after it, the count logged, whether it threw, and
\* whether the merge loop was entered
applyConfig(doc, rs, answer) ==
    IF doc.t # "object"
    THEN [rows |-> rs, loadedCount |-> 0, threw |-> TRUE, ran |-> FALSE]
    ELSE IF UnitDiffers(doc) /\ ~answer
    THEN [rows |-> rs, loadedCount |-> 0, threw |-> FALSE, ran |-> FALSE]
    ELSE ForEachConfig(
            IF Truthy(doc.v.configurations) THEN doc.v.configurations.v ELSE <<>>,
            1, rs, 0)

---------------------------------------------------------------------------
(* Inputs *)

SeqsUpTo(S, n) == UNION {[1..k -> S] : k \in 0..n}

\* the characters of the range settings tried
Alphabet == {" ", "N", "o", "n", "e", "u", "l", "R"}

\* the arguments tried on normalizeRangeSetting
NormValues ==
    {Undefined, Null, Num(0), Num(150000), Num(-5)}
        \cup {Str(s) : s \in SeqsUpTo(Alphabet, MaxLen)}

\* a row as the page renders it
Row(tv, rs, io, ri, ref, tol) ==
    [testValue |-> tv, rangeSetting |-> rs, ioType |-> io,
     rangeInput |-> ri, reference |-> ref, tolerance |-> tol]

\* 0 and 0.00005: their difference is below 0.0001
RowTestValues == {<<"0">>, <<"0", ".", "0", "0", "0", "0", "5">>}

\* rows that differ in their keys only
KeyRows ==
    {Row(tv, <<"N", "o", "n", "e">>, <<"V">>, <<"A">>, <<"1">>, <<"0", ".", "1">>) :
        tv \in RowTestValues}
    \cup {Row(<<"0">>, <<"R", " ">>, <<"V">>, <<"A">>, <<"1">>, <<"0", ".", "1">>)}

\* a loaded record
Rec(tv, rs, io, ri, ref, tol) ==
    [test_value |-> tv, range_setting |-> rs, io_type |-> io,
     range_input |-> ri, reference |-> ref, tolerance |-> tol]

\* records that differ in their keys: test values 0, 0.0001 and "0.00105"
KeyRecords ==
    {Rec(tv, Null, Str(<<"V">>), Str(<<"C">>), Str(<<"7">>), Num(30000)) :
        tv \in {Num(0), Num(10), Str(<<"0", ".", "0", "0", "1", "0", "5">>)}}
    \cup {Rec(Num(0), Str(<<" ", "R">>), Str(<<"V">>), Str(<<"C">>), Str(<<"7">>), Num(30000)),
          Rec(Num(0), Null, Str(<<"v">>), Str(<<"C">>), Str(<<"7">>), Num(30000))}

\* records of one key that differ in the fields they supply
FieldRecords ==
    {Rec(Num(0), Null, Str(<<"V">>), ri, ref, tol) :
        ri \in {Undefined, Str(<<"B">>)},
        ref \in {Undefined, Null},
        tol \in {Undefined, Str(<<"0", ".", "2">>)}}

Document(unit, configurations) ==
    Obj([unit |-> unit, configurations |-> configurations])

\* the documents merged: every list of up to MaxConfigs records
MergeDocuments ==
    {Document(filesInfoUnit, Arr([k \in DOMAIN rs |-> Obj(rs[k])])) :
        rs \in SeqsUpTo(KeyRecords \cup FieldRecords, MaxConfigs)}

\* rows of the round trip: near-equal keys, blank, padded and non-canonical inputs
RoundTripRows ==
    {Row(tv, <<"N", "/", "A">>, <<"V">>, ri, ref, tol) :
        tv \in RowTestValues,
        ri \in {<<>>, <<" ", "A">>},
        ref \in {<<"5">>, <<"5", ".", "0">>},
        tol \in {<<"0", ".", "2">>, <<"-", "1">>}}

---------------------------------------------------------------------------
(* Specification of normalizeRangeSetting *)

NoDocument == Undefined

NoRequests == [upload |-> 0, reset |-> 0, process |-> 0, save |-> 0, load |-> 0]

Event(op, result) == [op |-> op, result |-> result]

\* no page is in use: the functions are applied on their own
UiIdle ==
    /\ page = "none"
    /\ overlay = FALSE
    /\ inflight = NoRequests
    /\ event = Event("none", "none")
    /\ alerted = "none"
    /\ notified = "none"
    /\ fileListShown = FALSE
    /\ proceedEnabled = FALSE

NormInit ==
    /\ UiIdle
    /\ value \in NormValues
    /\ normalized = Pending
    /\ rows = <<>>
    /\ configData = NoDocument
    /\ loadedCount = 0
    /\ merged = "no"

Normalize ==
    /\ normalized = Pending
    /\ normalized' = Str(normalizeRangeSetting(value))
    /\ UNCHANGED <<value, rows, configData, loadedCount, merged>>
    /\ UNCHANGED uiVars

NormNext == Normalize

SpecNorm == NormInit /\ [][NormNext]_vars

---------------------------------------------------------------------------
(* Specification of the merge: applyConfig on a table and a document *)

MergeInit ==
    /\ UiIdle
    /\ value = Undefined
    /\ normalized = Pending
    /\ rows \in [1..NumRows -> KeyRows]
    /\ configData \in MergeDocuments
    /\ loadedCount = 0
    /\ merged = "no"

\* applyConfig(configData) on the current rows
Merge ==
    /\ merged = "no"
    /\ configData.t = "object"
    /\ \E answer \in (IF UnitDiffers(configData) THEN BOOLEAN ELSE {TRUE}) :
        \E r \in {applyConfig(configData, rows, answer)} :
            /\ rows' = r.rows
            /\ loadedCount' = r.loadedCount
            /\ merged' = IF r.threw THEN "threw"
                         ELSE IF r.ran THEN "done" ELSE "aborted"
    /\ UNCHANGED <<value, normalized, configData>>
    /\ UNCHANGED uiVars

MergeNext == Merge

SpecMerge == MergeInit /\ [][MergeNext]_vars

---------------------------------------------------------------------------
(* Specification of the round trip: save the table, reload the document *)

RoundTripInit ==
    /\ UiIdle
    /\ value = Undefined
    /\ normalized = Pending
    /\ rows \in [1..NumRows -> RoundTripRows]
    /\ configData = NoDocument
    /\ loadedCount = 0
    /\ merged = "no"

\* saveConfig up to the download: the document written, or the alert of
\* the error getConfigurations threw
Save ==
    /\ configData = NoDocument
    /\ merged = "no"
    /\ \E r \in {getConfigurations(rows)} :
           IF r.threw
           THEN /\ merged' = "invalid"
                /\ UNCHANGED configData
           ELSE /\ configData' = JsonDocument(SavedDocument(r.configs))
                /\ UNCHANGED merged
    /\ UNCHANGED <<value, normalized, rows, loadedCount>>
    /\ UNCHANGED uiVars

RoundTripNext == Save \/ Merge

SpecRoundTrip == RoundTripInit /\ [][RoundTripNext]_vars

---------------------------------------------------------------------------
(* Properties of the merge *)

\* the records of the document being merged
Records(doc) ==
    IF doc.t = "object" /\ Truthy(doc.v.configurations)
    THEN [k \in 1..Len(doc.v.configurations.v) |-> doc.v.configurations.v[k].v]
    ELSE <<>>

\* a step in which applyConfig ran its merge loop to the end
MergeStep == merged = "no" /\ merged' = "done"

\* the three conditions: test values less than 0.0001 apart, equal
\* normalized range settings, identical io types
KeyMatch(E, R) ==
    LET e == ParseFloat(E.test_value)
        r == ParseFloat(Str(R.testValue))
    IN  /\ e.t = "number" /\ r.t = "number"
        /\ r.v[1] - e.v[1] < Tolerance
        /\ e.v[1] - r.v[1] < Tolerance
        /\ normalizeRangeSetting(Str(R.rangeSetting))
                = normalizeRangeSetting(E.range_setting)
        /\ E.io_type = Str(R.ioType)

\* the (record, row) pairs that satisfy the three conditions
MatchPairs(recs, rs) ==
    {p \in (DOMAIN recs) \X (DOMAIN rs) : KeyMatch(recs[p[1]], rs[p[2]])}

Last(S) == CHOOSE k \in S : \A m \in S : m <= k

\* row R after the records from k on that satisfy the three conditions
\* have been written to it, in order
RECURSIVE WrittenFrom(_, _, _)
WrittenFrom(recs, k, R) ==
    IF k > Len(recs) THEN R
    ELSE WrittenFrom(recs, k + 1,
                     IF KeyMatch(recs[k], R) THEN WriteRow(recs[k], R) ELSE R)

\* C1: a row is written from a record, and the pair counted, if and only
\* if the pair satisfies all three conditions: after the merge every row is
\* its old self with exactly the records that satisfy them written to it,
\* and the count is the number of such pairs.
MatchIffAllThree ==
    [][MergeStep =>
        /\ \A j \in DOMAIN rows :
              rows'[j] = WrittenFrom(Records(configData), 1, rows[j])
        /\ loadedCount' = Cardinality(MatchPairs(Records(configData), rows))]_vars

\* C1 witness: one record with test value 0.0001 has been merged on a row at
\* 0.00005 (written) and a row at 0 (0.0001 apart: left alone)
MatchIffAllThreeWitness ==
    /\ merged = "done"
    /\ Len(Records(configData)) = 1
    /\ Records(configData)[1].test_value = Num(10)
    /\ ParseFloat(Str(rows[1].testValue)) = Num(5)
    /\ ParseFloat(Str(rows[2].testValue)) = Num(0)
    /\ rows[1].rangeSetting = rows[2].rangeSetting
    /\ loadedCount = 1
    /\ rows[1].reference = <<"7">>
    /\ rows[2].reference = <<"1">>

\* C2: the merge leaves test_value, range_setting and io_type of every row
\* as they were, and a row that no record matches keeps all of its fields.
KeysAndUnmatchedRowsUntouched ==
    [][(merged = "no" /\ merged' # "no") =>
        /\ DOMAIN rows' = DOMAIN rows
        /\ \A j \in DOMAIN rows :
              /\ rows'[j].testValue = rows[j].testValue
              /\ rows'[j].rangeSetting = rows[j].rangeSetting
              /\ rows'[j].ioType = rows[j].ioType
              /\ (\A k \in DOMAIN Records(configData) :
                      ~KeyMatch(Records(configData)[k], rows[j]))
                    => rows'[j] = rows[j]]_vars

\* C2 witness: a merge wrote row 1 and left row 2, which has another range
\* setting, with the inputs it had
KeysAndUnmatchedRowsUntouchedWitness ==
    /\ merged = "done"
    /\ loadedCount = 1
    /\ rows[1].rangeSetting = <<"N", "o", "n", "e">>
    /\ rows[1].reference = <<"7">>
    /\ rows[2].rangeSetting = <<"R", " ">>
    /\ rows[2].rangeInput = <<"A">>
    /\ rows[2].reference = <<"1">>
    /\ rows[2].tolerance = <<"0", ".", "1">>

\* C3: the count logged is the number of matching (record, row) pairs, and
\* every row a record matches holds that record's fields unless a later
\* matching record supplied them again.
CountsEveryMatchingPair ==
    [][MergeStep =>
        \A recs \in {Records(configData)} :
        \A pairs \in {MatchPairs(recs, rows)} :
            /\ loadedCount' = Cardinality(pairs)
            /\ \A p \in pairs :
                  \/ \E q \in pairs : q[2] = p[2] /\ q[1] > p[1]
                  \/ rows'[p[2]] = WriteRow(recs[p[1]], rows'[p[2]])]_vars

\* C3 witness: one record matched both rows; both hold its fields and the
\* count is 2
CountsEveryMatchingPairWitness ==
    /\ merged = "done"
    /\ Len(Records(configData)) = 1
    /\ loadedCount = 2
    /\ rows[1].reference = <<"7">>
    /\ rows[2].reference = <<"7">>

\* the input of row R for field f after the merge: the value of the last
\* matching record that supplies f, and R's own when none does
ExpectedField(recs, R, f, current) ==
    LET S == {k \in DOMAIN recs : KeyMatch(recs[k], R) /\ recs[k][f] # Undefined}
    IN  IF S = {} THEN current ELSE InputValue(recs[Last(S)][f])

\* C4: each of range_input, reference and tolerance is overwritten only by
\* a matching record that supplies it, whatever the record does with the
\* other two; a field no matching record supplies keeps its value.
OnlySuppliedFieldsWritten ==
    [][MergeStep =>
        \A j \in DOMAIN rows :
            LET recs == Records(configData)
            IN  /\ rows'[j].rangeInput
                    = ExpectedField(recs, rows[j], "range_input", rows[j].rangeInput)
                /\ rows'[j].reference
                    = ExpectedField(recs, rows[j], "reference", rows[j].reference)
                /\ rows'[j].tolerance
                    = ExpectedField(recs, rows[j], "tolerance", rows[j].tolerance)]_vars

\* C4 witness: a matching record that supplies only its tolerance was merged:
\* row 1 has the new tolerance and its old range input and reference
OnlySuppliedFieldsWrittenWitness ==
    /\ merged = "done"
    /\ Len(Records(configData)) = 1
    /\ Records(configData)[1].range_input = Undefined
    /\ Records(configData)[1].reference = Undefined
    /\ Records(configData)[1].tolerance = Str(<<"0", ".", "2">>)
    /\ loadedCount >= 1
    /\ rows[1].rangeInput = <<"A">>
    /\ rows[1].reference = <<"1">>
    /\ rows[1].tolerance = <<"0", ".", "2">>

---------------------------------------------------------------------------
(* Properties of the round trip *)

\* whether two rows have matching keys
RowsKeyMatch(A, B) ==
    LET a == ParseFloat(Str(A.testValue))
        b == ParseFloat(Str(B.testValue))
    IN  /\ a.t = "number" /\ b.t = "number"
        /\ a.v[1] - b.v[1] < Tolerance
        /\ b.v[1] - a.v[1] < Tolerance
        /\ normalizeRangeSetting(Str(A.rangeSetting))
                = normalizeRangeSetting(Str(B.rangeSetting))
        /\ A.ioType = B.ioType

\* the form in which a saved row's inputs come back
Canonical(R) ==
    [rangeInput |-> IF Trim(R.rangeInput) = <<>> THEN NA ELSE Trim(R.rangeInput),
     reference |-> NumToString(ParseFloat(Str(R.reference)).v[1]),
     tolerance |-> NumToString(ParseFloat(Str(R.tolerance)).v[1])]

\* C5 as stated: the round trip leaves range_input, reference and tolerance
\* of every row exactly as they were.
RoundTripReproducesExactly ==
    [][MergeStep =>
        \A j \in DOMAIN rows :
            /\ rows'[j].rangeInput = rows[j].rangeInput
            /\ rows'[j].reference = rows[j].reference
            /\ rows'[j].tolerance = rows[j].tolerance]_vars

\* C5 amended: after the round trip every row holds the canonical form
\* (range input trimmed, blank replaced by N/A; reference and tolerance as
\* parseFloat reads and toString prints them) of the inputs of the last row
\* of the table whose key matches its own.
RoundTripCanonicalOfLastMatch ==
    [][MergeStep =>
        \A j \in DOMAIN rows :
            LET L == Last({k \in DOMAIN rows : RowsKeyMatch(rows[k], rows[j])})
                c == Canonical(rows[L])
            IN  rows'[j] = [rows[j] EXCEPT !.rangeInput = c.rangeInput,
                                           !.reference = c.reference,
                                           !.tolerance = c.tolerance]]_vars

\* C5 witness: a table of two rows with near-equal keys has been saved and
\* reloaded: each of the two records matched both rows
RoundTripWitness ==
    /\ merged = "done"
    /\ configData # NoDocument
    /\ Len(Records(configData)) = 2
    /\ rows[1].testValue # rows[2].testValue
    /\ loadedCount = 4
    /\ rows[1].rangeInput = NA

---------------------------------------------------------------------------
(* Properties of normalizeRangeSetting *)

Spaces(n) == [k \in 1..n |-> " "]

\* r is s without its leading and trailing white space
IsTrimOf(r, s) ==
    /\ \E a \in 0..Len(s) : \E b \in 0..(Len(s) - a) :
          s = Spaces(a) \o r \o Spaces(b)
    /\ r # <<>> => (r[1] # " " /\ r[Len(r)] # " ")

\* C6: null, undefined, "None" and "null" give "N/A"; every other value
\* gives its string form without leading and trailing white space.
NormalizeSentinelOrTrimmed ==
    normalized # Pending =>
        /\ normalized.t = "string"
        /\ IF value \in {Null, Undefined,
                         Str(<<"N", "o", "n", "e">>), Str(<<"n", "u", "l", "l">>)}
           THEN normalized.v = <<"N", "/", "A">>
           ELSE IsTrimOf(normalized.v,
                         IF value.t = "string" THEN value.v ELSE StringOf(value))

\* C6 witness: a padded string has been normalized to its trimmed form
NormalizeWitness ==
    /\ value = Str(<<" ", "R", "e", " ">>)
    /\ normalized = Str(<<"R", "e">>)

---------------------------------------------------------------------------
(* The pages *)

\* the table the configure page is rendered with
UiTable ==
    [j \in 1..NumRows |->
        Row(IF j % 2 = 1 THEN <<"0">> ELSE <<"0", ".", "0", "0", "0", "0", "5">>,
            <<"N", "/", "A">>, <<"V">>, <<>>, <<"5">>, <<"0", ".", "2">>)]

\* what the user types in a reference and in a tolerance input
TypedReferences == {<<"5">>, <<"a", "b", "c">>}

TypedTolerances == {<<"0", ".", "2">>, <<"-", "1">>}

UiRecord == Rec(Num(0), Null, Str(<<"V">>), Undefined, Str(<<"7">>), Str(<<"0", ".", "2">>))

UiMiss ==
    Rec(Str(<<"0", ".", "0", "0", "1", "0", "5">>), Null, Str(<<"V">>), Undefined,
        Str(<<"7">>), Str(<<"0", ".", "2">>))

\* the bodies /api/load-config answers with under "config": a document of
\* this session's unit, one of another unit, one without configurations,
\* one whose second entry is null, one that matches no row, and none
UiDocuments ==
    {Document(filesInfoUnit, Arr(<<Obj(UiRecord)>>)),
     Document(Str(<<"A">>), Arr(<<Obj(UiRecord)>>)),
     Document(filesInfoUnit, Undefined),
     Document(filesInfoUnit, Arr(<<Obj(UiRecord), Null>>)),
     Document(filesInfoUnit, Arr(<<Obj(UiMiss)>>)),
     Undefined}

PureIdle ==
    /\ value = Undefined
    /\ normalized = Pending
    /\ configData = NoDocument
    /\ loadedCount = 0
    /\ merged = "no"

\* the loading overlay covers the page: while it is displayed the user
\* reaches no control under it
Blocked == overlay

Sent(kind) == [inflight EXCEPT ![kind] = @ + 1]

Settled(kind) == [inflight EXCEPT ![kind] = @ - 1]

Init ==
    /\ PureIdle
    /\ rows = <<>>
    /\ page = "upload"
    /\ overlay = FALSE
    /\ inflight = NoRequests
    /\ event = Event("DOMContentLoaded", "none")
    /\ alerted = "none"
    /\ notified = "none"
    /\ fileListShown = FALSE
    /\ proceedEnabled = FALSE

\* upload.js handleFiles, up to the fetch (lines 46-60)
HandleFiles ==
    /\ page = "upload" /\ ~Blocked
    /\ inflight.upload < MaxInFlight
    /\ overlay' = TRUE
    /\ inflight' = Sent("upload")
    /\ event' = Event("handleFiles", "sent")
    /\ alerted' = "none"
    /\ notified' = "none"
    /\ UNCHANGED <<pureVars, page, fileListShown, proceedEnabled>>

\* the callbacks of the upload fetch (lines 62-76)
UploadSettled ==
    /\ page = "upload"
    /\ inflight.upload > 0
    /\ inflight' = Settled("upload")
    /\ overlay' = FALSE
    /\ notified' = "none"
    /\ \E outcome \in {"ok", "error", "rejected"} :
        /\ event' = Event("handleFiles", outcome)
        /\ alerted' = CASE outcome = "ok" -> "none"
                        [] outcome = "error" -> "Error"
                        [] outcome = "rejected" -> "Upload failed"
        /\ fileListShown' = IF outcome = "ok" THEN TRUE ELSE fileListShown
        /\ proceedEnabled' = IF outcome = "ok" THEN TRUE ELSE proceedEnabled
    /\ UNCHANGED <<pureVars, page>>

\* upload.js clearFiles, up to the fetch (line 122)
ClearFiles ==
    /\ page = "upload" /\ ~Blocked
    /\ inflight.reset < MaxInFlight
    /\ inflight' = Sent("reset")
    /\ event' = Event("clearFiles", "sent")
    /\ alerted' = "none"
    /\ notified' = "none"
    /\ UNCHANGED <<pureVars, page, overlay, fileListShown, proceedEnabled>>

\* the callbacks of the reset fetch (lines 123-128): the answer is not
\* looked at, and a rejection has no handler
ResetSettled ==
    /\ page = "upload"
    /\ inflight.reset > 0
    /\ inflight' = Settled("reset")
    /\ alerted' = "none"
    /\ notified' = "none"
    /\ \E outcome \in {"ok", "error", "rejected"} :
        /\ event' = Event("clearFiles", outcome)
        /\ fileListShown' = IF outcome = "rejected" THEN fileListShown ELSE FALSE
        /\ proceedEnabled' = IF outcome = "rejected" THEN proceedEnabled ELSE FALSE
    /\ UNCHANGED <<pureVars, page, overlay>>

\* upload.js proceedToConfigure (lines 132-134): the configure page loads,
\* and the upload page with its pending callbacks is gone
ProceedToConfigure ==
    /\ page = "upload" /\ ~Blocked
    /\ proceedEnabled
    /\ page' = "configure"
    /\ rows' = UiTable
    /\ overlay' = FALSE
    /\ inflight' = NoRequests
    /\ event' = Event("proceedToConfigure", "navigated")
    /\ alerted' = "none"
    /\ notified' = "none"
    /\ fileListShown' = FALSE
    /\ proceedEnabled' = FALSE
    /\ UNCHANGED <<value, normalized, configData, loadedCount, merged>>

\* the user types in the reference or the tolerance input of a row
EditRow ==
    /\ page = "configure" /\ ~Blocked
    /\ \E j \in DOMAIN rows :
        \/ \E text \in TypedReferences : rows' = [rows EXCEPT ![j].reference = text]
        \/ \E text \in TypedTolerances : rows' = [rows EXCEPT ![j].tolerance = text]
    /\ event' = Event("edit", "typed")
    /\ alerted' = "none"
    /\ notified' = "none"
    /\ UNCHANGED <<value, normalized, configData, loadedCount, merged, page,
                   overlay, inflight, fileListShown, proceedEnabled>>

\* processFiles, up to the fetch (lines 61-83) or to the catch (line 102)
ProcessFiles ==
    /\ page = "configure" /\ ~Blocked
    /\ inflight.process < MaxInFlight
    /\ \E r \in {getConfigurations(rows)} :
        IF r.threw
        THEN /\ alerted' = "Configuration error"
             /\ event' = Event("processFiles", "invalid")
             /\ UNCHANGED <<overlay, inflight>>
        ELSE /\ overlay' = TRUE
             /\ inflight' = Sent("process")
             /\ event' = Event("processFiles", "sent")
             /\ alerted' = "none"
    /\ notified' = "none"
    /\ UNCHANGED <<pureVars, page, fileListShown, proceedEnabled>>

\* the callbacks of the process fetch (lines 85-99)
ProcessSettled ==
    /\ page = "configure"
    /\ inflight.process > 0
    /\ overlay' = FALSE
    /\ notified' = "none"
    /\ \E outcome \in {"ok", "error", "rejected"} :
        /\ event' = Event("processFiles", outcome)
        /\ alerted' = CASE outcome = "ok" -> "none"
                        [] outcome = "error" -> "Error"
                        [] outcome = "rejected" -> "Processing failed"
        /\ page' = IF outcome = "ok" THEN "results" ELSE page
        /\ inflight' = IF outcome = "ok" THEN NoRequests ELSE Settled("process")
    /\ UNCHANGED <<pureVars, fileListShown, proceedEnabled>>

\* saveConfig, up to the fetch (lines 107-128) or to the catch (line 151)
SaveConfig ==
    /\ page = "configure" /\ ~Blocked
    /\ inflight.save < MaxInFlight
    /\ \E r \in {getConfigurations(rows)} :
        IF r.threw
        THEN /\ alerted' = "Configuration error"
             /\ event' = Event("saveConfig", "invalid")
             /\ UNCHANGED inflight
        ELSE /\ inflight' = Sent("save")
             /\ event' = Event("saveConfig", "sent")
             /\ alerted' = "none"
    /\ notified' = "none"
    /\ UNCHANGED <<pureVars, page, overlay, fileListShown, proceedEnabled>>

\* the callbacks of the save fetch (lines 130-148): nothing is done for an
\* answer whose success is false
SaveSettled ==
    /\ page = "configure"
    /\ inflight.save > 0
    /\ inflight' = Settled("save")
    /\ \E outcome \in {"ok", "error", "rejected"} :
        /\ event' = Event("saveConfig", outcome)
        /\ alerted' = IF outcome = "rejected" THEN "Save failed" ELSE "none"
        /\ notified' = IF outcome = "ok" THEN "Configuration saved successfully!"
                       ELSE "none"
    /\ UNCHANGED <<pureVars, page, overlay, fileListShown, proceedEnabled>>

\* loadConfigFromFile, up to the fetch (lines 160-167)
LoadConfigFromFile ==
    /\ page = "configure" /\ ~Blocked
    /\ inflight.load < MaxInFlight
    /\ inflight' = Sent("load")
    /\ event' = Event("loadConfigFromFile", "sent")
    /\ alerted' = "none"
    /\ notified' = "none"
    /\ UNCHANGED <<pureVars, page, overlay, fileListShown, proceedEnabled>>

\* the fetch rejects, or the server answers with an error (lines 170-173,
\* 178-180)
LoadFailed ==
    /\ page = "configure"
    /\ inflight.load > 0
    /\ inflight' = Settled("load")
    /\ notified' = "none"
    /\ \E outcome \in {"error", "rejected"} :
        /\ event' = Event("loadConfigFromFile", outcome)
        /\ alerted' = IF outcome = "error" THEN "Error loading config"
                      ELSE "Load failed"
    /\ UNCHANGED <<pureVars, page, overlay, fileListShown, proceedEnabled>>

\* the server answers without an error (lines 175-176): applyConfig runs on
\* data.config; what it throws reaches the catch of line 178
LoadAnswered ==
    /\ page = "configure"
    /\ inflight.load > 0
    /\ inflight' = Settled("load")
    /\ \E doc \in UiDocuments :
       \E answer \in (IF UnitDiffers(doc) THEN BOOLEAN ELSE {TRUE}) :
       \E r \in {applyConfig(doc, rows, answer)} :
        /\ rows' = r.rows
        /\ loadedCount' = IF r.ran /\ ~r.threw THEN r.loadedCount ELSE loadedCount
        /\ event' = Event("loadConfigFromFile",
                          IF r.threw THEN "threw"
                          ELSE IF r.ran THEN "applied" ELSE "aborted")
        /\ alerted' = IF r.threw THEN "Load failed" ELSE "none"
        /\ notified' = IF r.threw THEN "none"
                       ELSE "Configuration loaded successfully!"
    /\ UNCHANGED <<value, normalized, configData, merged, page, overlay,
                   fileListShown, proceedEnabled>>

Next ==
    \/ HandleFiles
    \/ UploadSettled
    \/ ClearFiles
    \/ ResetSettled
    \/ ProceedToConfigure
    \/ EditRow
    \/ ProcessFiles
    \/ ProcessSettled
    \/ SaveConfig
    \/ SaveSettled
    \/ LoadConfigFromFile
    \/ LoadFailed
    \/ LoadAnswered

Spec == Init /\ [][Next]_vars

---------------------------------------------------------------------------
(* Properties of the pages *)

Min(S) == CHOOSE k \in S : \A m \in S : k <= m

\* a row whose reference or tolerance is not a number, or whose tolerance
\* is negative
InvalidRow(R) ==
    LET reference == ParseFloat(Str(R.reference))
        tolerance == ParseFloat(Str(R.tolerance))
    IN  \/ reference.t # "number"
        \/ tolerance.t # "number"
        \/ tolerance.v[1] < 0

\* C7: with an invalid row in the table getConfigurations throws at the
\* first such row and returns no list, and processFiles and saveConfig
\* alert and send nothing; without one it returns a record per row, each
\* with a numeric reference and a tolerance >= 0, and the request is sent.
ExtractionAllOrNothing ==
    [][event'.op \in {"processFiles", "saveConfig"}
          /\ event'.result \in {"sent", "invalid"} =>
        LET r == getConfigurations(rows)
            bad == {j \in DOMAIN rows : InvalidRow(rows[j])}
            kind == IF event'.op = "processFiles" THEN "process" ELSE "save"
        IN  IF bad # {}
            THEN /\ r.threw /\ r.at = Min(bad) /\ r.configs = <<>>
                 /\ event'.result = "invalid"
                 /\ inflight' = inflight
                 /\ overlay' = overlay
                 /\ alerted' = "Configuration error"
            ELSE /\ ~r.threw /\ Len(r.configs) = Len(rows)
                 /\ \A k \in DOMAIN r.configs :
                       /\ r.configs[k].reference.t = "number"
                       /\ r.configs[k].tolerance.t = "number"
                       /\ r.configs[k].tolerance.v[1] >= 0
                 /\ event'.result = "sent"
                 /\ inflight' = [inflight EXCEPT ![kind] = @ + 1]]_vars

\* C7 witness: processFiles has run on a table whose first row is valid and
\* whose second has a negative tolerance: an alert, and no request
ExtractionAllOrNothingWitness ==
    /\ page = "configure"
    /\ event = Event("processFiles", "invalid")
    /\ alerted = "Configuration error"
    /\ inflight.process = 0
    /\ ~overlay
    /\ ~InvalidRow(rows[1])
    /\ rows[2].tolerance = <<"-", "1">>

\* C8: a load-config action changes rows only in the callback of an
\* error-free answer and, when the units differ, after the user confirmed;
\* when the server answers with an error, the fetch rejects or the user
\* declines, every row stays as it was.
LoadChangesRowsOnlyOnSuccess ==
    [][event'.op = "loadConfigFromFile" =>
        /\ event'.result \in {"sent", "error", "rejected", "aborted"}
              => rows' = rows
        /\ rows' # rows => event'.result \in {"applied", "threw"}]_vars

\* C8 witness: the user declined a document of another unit, and row 1 still
\* has the reference it was rendered with
LoadChangesRowsOnlyOnSuccessWitness ==
    /\ page = "configure"
    /\ event = Event("loadConfigFromFile", "aborted")
    /\ rows = UiTable

\* C9 as stated: whenever a fetch rejects or the server answers with a
\* failure, the handler that ends the action has raised an alert.
EveryFailureAlerted ==
    event.result \in {"error", "rejected"} => alerted # "none"

\* the endpoints whose action is to show the loading overlay
Indicated == {"upload", "process", "save", "load"}

\* C10 as stated: while a fetch of upload, process, save-config or
\* load-config is unsettled the loading overlay is displayed, so that no
\* further fetch is started and no row is edited meanwhile.
OverlayBracketsEveryRequest ==
    [][/\ \A k \in Indicated : inflight'[k] > 0 => overlay'
       /\ (\E k \in Indicated : inflight[k] > 0) =>
            /\ event'.op # "edit"
            /\ \A k \in Indicated : inflight'[k] <= inflight[k]]_vars

=============================================================================
